---------------------------- MODULE Spec2Model ----------------------------
(***************************************************************************)
(* Model of writePacket / sendData (src/unnamed/part_000) of the Cypherock *)
(* communication module, with the error kinds of src/src/errors/index.ts.  *)
(*                                                                         *)
(* The JavaScript event loop is modelled as it runs the code: a handler    *)
(* (an emitted 'ack' or 'close', a timer, the settling of the write        *)
(* promise) runs to completion as one step; the continuation of an awaited *)
(* promise is a microtask, and no further event is delivered while a       *)
(* microtask or synchronous code of sendData is still to run (Quiescent).  *)
(* The duration of the acknowledgment timer (constants.vN.ACK_TIME) is     *)
(* abstracted: a pending timer may fire at any later event-loop turn, so   *)
(* the packet version, which only selects that duration, is not a part of  *)
(* the state.                                                              *)
(***************************************************************************)
EXTENDS Integers, Sequences, FiniteSets, TLC

\* ------------------------------------------------------------- bounds
\* packets the encoder returns for one payload
MaxPackets == 2
\* largest maxTries a caller passes explicitly
MaxTriesArg == 2
\* most writePacket attempts one sendData call can need (packets * tries)
MaxAttempts == 5
\* sendData operations a caller may have started
NumOps == 2
\* most attempts of a sendData call on the connection with a device model
MaxDeviceAttempts == 3
\* most attempts of each of two overlapping sendData calls
MaxConcAttempts == 1

\* ---------------------------------------------------- program constants
DefaultMaxTries == 5
NoRetryCommand == 255
SampleCommand == 21

CONNECTION_CLOSED == "HD_INIT_1011"
CONNECTION_NOT_OPEN == "HD_INIT_1012"
NOT_CONNECTED == "HD_INIT_1001"
WRITE_ERROR == "HD_COM_1007"
WRITE_TIMEOUT == "HD_COM_1051"

ACK_PACKET == "ACK_PACKET"
NACK_PACKET == "NACK_PACKET"
\* an ack-type notification whose commandType is neither of the two above
UNKNOWN_PACKET == "UNKNOWN_PACKET"
CommandTypes == {ACK_PACKET, NACK_PACKET, UNKNOWN_PACKET}

Ops == 1..NumOps
\* the sendData operations that run in the sequential specification
SeqOps == {1}
Commands == {SampleCommand, NoRetryCommand}
MaxTriesInputs == ((0 - 1)..MaxTriesArg) \cup {DefaultMaxTries}

VARIABLES
    connected,       \* connection.isConnected()
    ackListeners,    \* invocations whose dataListener is registered for 'ack'
    closeListeners,  \* invocations whose onClose is registered for 'close'
    timers,          \* invocations whose acknowledgment timer is pending
    invs,            \* the writePacket invocations, in call order
    sd               \* the sendData operations

vars == <<connected, ackListeners, closeListeners, timers, invs, sd>>

IdleOp ==
    [pc |-> "idle", command |-> 0, maxTries |-> 0, nPackets |-> 0, d |-> 0,
     tries |-> 0, firstError |-> "undefined", cur |-> 0, error |-> "none"]

Init ==
    /\ connected = TRUE
    /\ ackListeners = {}
    /\ closeListeners = {}
    /\ timers = {}
    /\ invs = <<>>
    /\ sd = [o \in Ops |-> IdleOp]

\* An invocation of writePacket: the operation and the packet (its index in
\* packetsList) it was called for, the promise of connection.write ("none":
\* write was not called), the promise writePacket returns (outcome: "pending",
\* "resolved" or the errorType it was rejected with), what settled it, the
\* commandType its dataListener was called with, the invocation whose write
\* that notification answered when the device sent it as an answer (from),
\* and whether the device has answered the write of this invocation.
Invocations ==
    [op : Ops, d : 1..MaxPackets,
     wr : {"none", "pending", "resolved", "rejected"},
     outcome : {"pending", "resolved", CONNECTION_CLOSED, WRITE_ERROR,
                WRITE_TIMEOUT},
     by : {"none", "ack", "nack", "close", "closeErr", "timeout", "writeFail",
           "notConnected"},
     got : {"none"} \cup CommandTypes,
     from : 0..(MaxAttempts * NumOps), answered : BOOLEAN]

TypeOK ==
    /\ connected \in BOOLEAN
    /\ ackListeners \subseteq DOMAIN invs
    /\ closeListeners \subseteq DOMAIN invs
    /\ timers \subseteq DOMAIN invs
    /\ \A i \in DOMAIN invs : invs[i] \in Invocations
    /\ \A o \in Ops :
        /\ sd[o].pc \in {"idle", "loop", "await", "then", "catch", "resolved",
                         "rejected"}
        /\ sd[o].cur \in {0} \cup DOMAIN invs
        /\ sd[o].pc \in {"await", "then", "catch"} <=> sd[o].cur # 0
        /\ sd[o].d \in 0..sd[o].nPackets

\* ------------------------------------------------------------ promises
\* The part of the state the handlers of writePacket act on.
World ==
    [invs |-> invs, ack |-> ackListeners, close |-> closeListeners,
     timers |-> timers]

\* resolve() of the promise of invocation i: a settled promise stays as it is
resolve(w, i) ==
    IF w.invs[i].outcome = "pending"
    THEN [w EXCEPT !.invs[i].outcome = "resolved", !.invs[i].by = "ack"]
    ELSE w

\* Fault variant of reject: a promise that could be settled again.
rejectSettled(w, i, e, by) ==
    [w EXCEPT !.invs[i].outcome = e, !.invs[i].by = by]

\* reject(new DeviceError(e)) of the promise of invocation i
reject(w, i, e, by) ==
    IF w.invs[i].outcome = "pending"
    THEN [w EXCEPT !.invs[i].outcome = e, !.invs[i].by = by]
    ELSE w

\* connection.removeListener('ack', dataListener);
\* connection.removeListener('close', onClose)
removeListeners(w, i) ==
    [w EXCEPT !.ack = @ \ {i}, !.close = @ \ {i}]

clearTimeout(w, i) ==
    [w EXCEPT !.timers = @ \ {i}]

\* ------------------------------------------------- writePacket handlers
\* Fault variant of dataListener: resolves without the switch on commandType.
dataListenerNoSwitch(w, i, commandType) ==
    resolve(removeListeners(clearTimeout([w EXCEPT !.invs[i].got = commandType],
                                         i), i), i)

\* Fault variant of dataListener: the 'close' listener is left registered.
dataListenerKeepsClose(w, i, commandType) ==
    LET c == [clearTimeout([w EXCEPT !.invs[i].got = commandType], i)
                EXCEPT !.ack = @ \ {i}] IN
    CASE commandType = ACK_PACKET -> resolve(c, i)
      [] commandType = NACK_PACKET -> reject(c, i, WRITE_ERROR, "nack")
      [] OTHER -> c

dataListener(w, i, commandType) ==
    LET c == removeListeners(clearTimeout([w EXCEPT !.invs[i].got = commandType],
                                          i), i) IN
    CASE commandType = ACK_PACKET -> resolve(c, i)
      [] commandType = NACK_PACKET -> reject(c, i, WRITE_ERROR, "nack")
      [] OTHER -> c

\* Fault variant of onClose: a close with an error is reported as a failed
\* write.
onCloseRejectsErr(w, i, err) ==
    reject(removeListeners(clearTimeout(w, i), i), i,
           IF err THEN WRITE_ERROR ELSE CONNECTION_CLOSED,
           IF err THEN "closeErr" ELSE "close")

onClose(w, i, err) ==
    reject(removeListeners(clearTimeout(w, i), i), i, CONNECTION_CLOSED,
           IF err THEN "closeErr" ELSE "close")

\* the .catch of connection.write(packet)
onWriteError(w, i) ==
    reject(removeListeners(clearTimeout(w, i), i), i, WRITE_ERROR, "writeFail")

\* Fault variant of the timer callback: the listeners are left registered.
onTimeoutKeepsListeners(w, i) ==
    reject(clearTimeout(w, i), i, WRITE_TIMEOUT, "timeout")

\* the callback of setTimeout; the timer that fired is no longer pending
onTimeout(w, i) ==
    reject(removeListeners(clearTimeout(w, i), i), i, WRITE_TIMEOUT, "timeout")

\* Fault variant of emit: only the listener registered first is called.
emitAckFirst(w, L, commandType) ==
    IF L = {} THEN w
    ELSE dataListener(w, CHOOSE i \in L : \A j \in L : i <= j, commandType)

\* EventEmitter.emit: every listener registered when the event is emitted runs
RECURSIVE emitAck(_, _, _)
emitAck(w, L, commandType) ==
    IF L = {} THEN w
    ELSE LET i == CHOOSE x \in L : TRUE
         IN emitAck(dataListener(w, i, commandType), L \ {i}, commandType)

RECURSIVE emitClose(_, _, _)
emitClose(w, L, err) ==
    IF L = {} THEN w
    ELSE LET i == CHOOSE x \in L : TRUE
         IN emitClose(onClose(w, i, err), L \ {i}, err)

\* A settled writePacket promise queues the continuation of the sendData
\* operation that awaits it: its then-branch (line 133) or its catch (135).
Wake(w) ==
    [o \in Ops |->
        IF /\ sd[o].pc = "await"
           /\ invs[sd[o].cur].outcome = "pending"
           /\ w.invs[sd[o].cur].outcome # "pending"
        THEN [sd[o] EXCEPT !.pc = IF w.invs[sd[o].cur].outcome = "resolved"
                                  THEN "then" ELSE "catch"]
        ELSE sd[o]]

\* the state after a handler ran
Handled(w) ==
    /\ invs' = w.invs
    /\ ackListeners' = w.ack
    /\ closeListeners' = w.close
    /\ timers' = w.timers
    /\ sd' = Wake(w)

\* No synchronous code and no microtask of a sendData operation is left to
\* run: the event loop takes its next event.
Quiescent == \A o \in Ops : sd[o].pc \in {"idle", "await", "resolved", "rejected"}

\* ------------------------------------------------------------ sendData
FatalTypes == {CONNECTION_CLOSED, CONNECTION_NOT_OPEN, NOT_CONNECTED}

\* Fault variant of EffMaxTries: command 255 is given no smaller budget.
EffMaxTriesAnyCommand(command, maxTries) == maxTries

\* let _maxTries = maxTries; if (command === 255) _maxTries = 1
EffMaxTries(command, maxTries) ==
    IF command = NoRetryCommand THEN 1 ELSE maxTries

\* _maxTries of the operation s
OpMaxTries(s) == EffMaxTries(s.command, s.maxTries)

\* The calls of sendData that are explored: a command, maxTries (explicit, or
\* omitted and so DefaultMaxTries) and the number of packets xmodemEncode
\* returns, such that the call needs at most MaxAttempts attempts.
Inputs ==
    {in \in Commands \X MaxTriesInputs \X (0..MaxPackets) :
        in[3] * EffMaxTries(in[1], in[2]) <= MaxAttempts}

\* Fault variant of the loop test: one attempt short.
LoopContinuesStrict(s) == s.tries < OpMaxTries(s)

\* Fault variant of the loop test: a do-while, the first attempt is always made.
LoopContinuesAtLeastOnce(s) == s.tries = 1 \/ s.tries <= OpMaxTries(s)

\* while (tries <= _maxTries)
LoopContinues(s) == s.tries <= OpMaxTries(s)

\* Fault variant of the catch block: a connection-fatal error does not end
\* the retries.
CatchErrorRetriesFatal(s, e) ==
    [s EXCEPT !.pc = "loop",
              !.tries = @ + 1,
              !.firstError = IF @ = "undefined" THEN e ELSE @]

\* Fault variant of the catch block: the error kept is the latest one.
CatchErrorKeepsLast(s, e) ==
    [s EXCEPT !.pc = "loop",
              !.tries = (IF e \in FatalTypes THEN OpMaxTries(s) ELSE @) + 1,
              !.firstError = e]

\* the catch block of the retry loop followed by tries++
CatchError(s, e) ==
    [s EXCEPT !.pc = "loop",
              !.tries = (IF e \in FatalTypes THEN OpMaxTries(s) ELSE @) + 1,
              !.firstError = IF @ = "undefined" THEN e ELSE @]

\* sendData is called; the closure of the first packet starts
SendData(o, command, maxTries, nPackets) ==
    /\ Quiescent
    /\ sd[o].pc = "idle"
    /\ sd' = [sd EXCEPT ![o] =
                [pc |-> IF nPackets = 0 THEN "resolved" ELSE "loop",
                 command |-> command, maxTries |-> maxTries,
                 nPackets |-> nPackets,
                 d |-> IF nPackets = 0 THEN 0 ELSE 1,
                 tries |-> 1, firstError |-> "undefined", cur |-> 0,
                 error |-> "none"]]
    /\ UNCHANGED <<connected, ackListeners, closeListeners, timers, invs>>

\* Fault variant of WritePacketThrows: isConnected() is tested only after the
\* listeners were added.
WritePacketThrowsLate(o) ==
    /\ sd[o].pc = "loop"
    /\ LoopContinues(sd[o])
    /\ ~connected
    /\ invs' = Append(invs, [op |-> o, d |-> sd[o].d, wr |-> "none",
                             outcome |-> CONNECTION_CLOSED,
                             by |-> "notConnected", got |-> "none",
                             from |-> 0, answered |-> FALSE])
    /\ ackListeners' = ackListeners \cup {Len(invs) + 1}
    /\ closeListeners' = closeListeners \cup {Len(invs) + 1}
    /\ sd' = [sd EXCEPT ![o] = CatchError(sd[o], CONNECTION_CLOSED)]
    /\ UNCHANGED <<connected, timers>>

\* writePacket called on a connection that is not connected: it throws
\* before anything is registered, and the retry loop catches the error
WritePacketThrows(o) ==
    /\ sd[o].pc = "loop"
    /\ LoopContinues(sd[o])
    /\ ~connected
    /\ invs' = Append(invs, [op |-> o, d |-> sd[o].d, wr |-> "none",
                             outcome |-> CONNECTION_CLOSED,
                             by |-> "notConnected", got |-> "none",
                             from |-> 0, answered |-> FALSE])
    /\ sd' = [sd EXCEPT ![o] = CatchError(sd[o], CONNECTION_CLOSED)]
    /\ UNCHANGED <<connected, ackListeners, closeListeners, timers>>

\* writePacket on a connected connection: both listeners are added, the packet
\* is written, the timer is started, and the retry loop awaits the promise
WritePacketStarts(o) ==
    /\ sd[o].pc = "loop"
    /\ LoopContinues(sd[o])
    /\ connected
    /\ LET i == Len(invs) + 1 IN
        /\ invs' = Append(invs, [op |-> o, d |-> sd[o].d, wr |-> "pending",
                                 outcome |-> "pending", by |-> "none",
                                 got |-> "none",
                             from |-> 0, answered |-> FALSE])
        /\ ackListeners' = ackListeners \cup {i}
        /\ closeListeners' = closeListeners \cup {i}
        /\ timers' = timers \cup {i}
        /\ sd' = [sd EXCEPT ![o].pc = "await", ![o].cur = i]
    /\ UNCHANGED connected

\* Fault variant of RetriesExhausted: the for loop catches the rejection
\* without rethrowing it and goes on.
RetriesExhaustedMovesOn(o) ==
    /\ sd[o].pc = "loop"
    /\ ~LoopContinues(sd[o])
    /\ sd' = [sd EXCEPT ![o] =
                IF sd[o].d < sd[o].nPackets
                THEN [@ EXCEPT !.pc = "loop", !.d = @ + 1, !.tries = 1,
                               !.firstError = "undefined"]
                ELSE [@ EXCEPT !.pc = "resolved"]]
    /\ UNCHANGED <<connected, ackListeners, closeListeners, timers, invs>>

\* the while loop ends without a sent packet: the closure rejects, and the
\* for loop of sendData rethrows what it caught
RetriesExhausted(o) ==
    /\ sd[o].pc = "loop"
    /\ ~LoopContinues(sd[o])
    /\ sd' = [sd EXCEPT ![o].pc = "rejected",
                        ![o].error = IF sd[o].firstError # "undefined"
                                     THEN sd[o].firstError
                                     ELSE WRITE_TIMEOUT]
    /\ UNCHANGED <<connected, ackListeners, closeListeners, timers, invs>>

\* Fault variant of PacketSent: no return after resolve(true), so the retry
\* loop goes on with tries++.
PacketSentNoReturn(o) ==
    /\ sd[o].pc = "then"
    /\ sd' = [sd EXCEPT ![o].pc = "loop", ![o].tries = @ + 1, ![o].cur = 0]
    /\ UNCHANGED <<connected, ackListeners, closeListeners, timers, invs>>

\* await writePacket returned: resolve(true), and the for loop goes on to the
\* closure of the next packet, or sendData returns
PacketSent(o) ==
    /\ sd[o].pc = "then"
    /\ sd' = [sd EXCEPT ![o] =
                IF sd[o].d < sd[o].nPackets
                THEN [@ EXCEPT !.pc = "loop", !.d = @ + 1, !.tries = 1,
                               !.firstError = "undefined", !.cur = 0]
                ELSE [@ EXCEPT !.pc = "resolved", !.cur = 0]]
    /\ UNCHANGED <<connected, ackListeners, closeListeners, timers, invs>>

\* await writePacket threw: the catch block, then tries++
PacketFailed(o) ==
    /\ sd[o].pc = "catch"
    /\ sd' = [sd EXCEPT ![o] =
                [CatchError(sd[o], invs[sd[o].cur].outcome) EXCEPT !.cur = 0]]
    /\ UNCHANGED <<connected, ackListeners, closeListeners, timers, invs>>

\* ---------------------------------------------------------- connection
\* connection.write was called by invocation i
Wrote(i) == invs[i].wr # "none"

\* the connection emits 'ack' with a packet of the given commandType
EmitAck(commandType) ==
    /\ Quiescent
    /\ Handled(emitAck(World, ackListeners, commandType))
    /\ UNCHANGED connected

\* the connection closes and emits 'close', with or without an error
EmitClose(err) ==
    /\ Quiescent
    /\ connected' = FALSE
    /\ Handled(emitClose(World, closeListeners, err))

\* the connection is opened again
Reconnect ==
    /\ Quiescent
    /\ ~connected
    /\ connected' = TRUE
    /\ UNCHANGED <<ackListeners, closeListeners, timers, invs, sd>>

\* the acknowledgment timer of invocation i expires
TimerFires(i) ==
    /\ Quiescent
    /\ i \in timers
    /\ Handled(onTimeout(World, i))
    /\ UNCHANGED connected

\* the promise of connection.write(packet) of invocation i is fulfilled
WriteSucceeds(i) ==
    /\ Quiescent
    /\ invs[i].wr = "pending"
    /\ invs' = [invs EXCEPT ![i].wr = "resolved"]
    /\ UNCHANGED <<connected, ackListeners, closeListeners, timers, sd>>

\* the promise of connection.write(packet) of invocation i is rejected
WriteFails(i) ==
    /\ Quiescent
    /\ invs[i].wr = "pending"
    /\ Handled(onWriteError([World EXCEPT !.invs[i].wr = "rejected"], i))
    /\ UNCHANGED connected

\* The device answers the write of invocation j, once, with a notification
\* of the given commandType; the connection emits it as 'ack' at some later
\* turn of the event loop, to the listeners registered then.
DeviceAnswers(j, commandType) ==
    /\ Quiescent
    /\ Wrote(j)
    /\ ~invs[j].answered
    /\ LET w == [World EXCEPT !.invs =
                    [i \in DOMAIN invs |->
                        [invs[i] EXCEPT
                            !.answered = IF i = j THEN TRUE ELSE @,
                            !.from = IF i \in ackListeners THEN j ELSE @]]]
       IN Handled(emitAck(w, ackListeners, commandType))
    /\ UNCHANGED connected

\* what the connection does besides emitting 'ack'
Link ==
    \/ \E err \in BOOLEAN : EmitClose(err)
    \/ Reconnect
    \/ \E i \in DOMAIN invs : TimerFires(i)
    \/ \E i \in DOMAIN invs : WriteSucceeds(i)
    \/ \E i \in DOMAIN invs : WriteFails(i)

Environment ==
    \/ \E c \in CommandTypes : EmitAck(c)
    \/ Link

\* the steps of a sendData operation that was called
Continue(o) ==
    \/ WritePacketThrows(o)
    \/ WritePacketStarts(o)
    \/ RetriesExhausted(o)
    \/ PacketSent(o)
    \/ PacketFailed(o)

Operation(o) ==
    \/ \E in \in Inputs : SendData(o, in[1], in[2], in[3])
    \/ Continue(o)

Next ==
    \/ \E o \in SeqOps : Operation(o)
    \/ Environment

Spec == Init /\ [][Next]_vars

\* One sendData operation on a connection whose 'ack' notifications are the
\* answers of the device to the packets written, each delivered at any time
\* after its write.
DeviceInputs ==
    {in \in Inputs : in[3] * EffMaxTries(in[1], in[2]) <= MaxDeviceAttempts}

NextDevice ==
    \/ \E o \in SeqOps, in \in DeviceInputs : SendData(o, in[1], in[2], in[3])
    \/ \E o \in SeqOps : Continue(o)
    \/ \E j \in DOMAIN invs, c \in CommandTypes : DeviceAnswers(j, c)
    \/ Link

SpecDevice == Init /\ [][NextDevice]_vars

\* Two sendData operations called on the same connection, the second one
\* possibly while the first is waiting for an acknowledgment.
ConcOps == {1, 2}

\* the calls explored for each of them: command 21, at least one packet and
\* one try, at most MaxConcAttempts attempts
ConcInputs ==
    {in \in Inputs :
        /\ in[1] = SampleCommand
        /\ in[2] >= 1
        /\ in[3] >= 1
        /\ in[3] * in[2] <= MaxConcAttempts}

NextConc ==
    \/ \E o \in ConcOps, in \in ConcInputs : SendData(o, in[1], in[2], in[3])
    \/ \E o \in ConcOps : Continue(o)
    \/ Environment

SpecConc == Init /\ [][NextConc]_vars

\* ---------------------------------------------------------- properties
\* the writePacket invocations of operation o
InvsOf(o) == {i \in DOMAIN invs : invs[i].op = o}
Settled(i) == invs[i].outcome # "pending"
\* invocation i was resolved by an 'ack' notification of commandType ACK_PACKET
Acked(i) == invs[i].outcome = "resolved" /\ invs[i].got = ACK_PACKET

\* C1: within one sendData operation the writes follow the order of the
\* packet list; when a packet is written every earlier invocation of the
\* operation has settled, and the packet before it was resolved by an ACK.
C1_WritesInOrder ==
    \A o \in Ops : \A j \in InvsOf(o) :
        Wrote(j) =>
            /\ \A i \in InvsOf(o) :
                    i < j => invs[i].d <= invs[j].d /\ Settled(i)
            /\ invs[j].d > 1 =>
                    \E i \in InvsOf(o) :
                        i < j /\ invs[i].d = invs[j].d - 1 /\ Acked(i)

\* a second packet was written after the first needed a second attempt
C1_Witness ==
    \E i, j, k \in DOMAIN invs :
        /\ i < j /\ j < k
        /\ invs[i].d = 1 /\ invs[i].by = "timeout"
        /\ invs[j].d = 1 /\ Acked(j)
        /\ invs[k].d = 2 /\ Wrote(k)

\* C2: a writePacket call made while isConnected() is false fails with
\* CONNECTION_CLOSED, calls no connection.write, adds no listener and starts
\* no timer.
C2_NotConnectedNoWrite ==
    [][(~connected /\ Len(invs') > Len(invs)) =>
            /\ invs'[Len(invs')].outcome = CONNECTION_CLOSED
            /\ invs'[Len(invs')].wr = "none"
            /\ ackListeners' = ackListeners
            /\ closeListeners' = closeListeners
            /\ timers' = timers]_vars

\* writePacket was called on a connection that was not connected
C2_Witness ==
    \E i \in DOMAIN invs : invs[i].by = "notConnected"

\* C3: an invocation whose dataListener got a commandType other than ACK and
\* NACK, and that is not settled, still has its timer pending, so that it
\* fails with WRITE_TIMEOUT when the timer expires.
C3_UnknownAckKeepsTimer ==
    \A i \in DOMAIN invs :
        (invs[i].got = UNKNOWN_PACKET /\ ~Settled(i)) => i \in timers

\* C4: a settled invocation has neither listener registered and no timer
\* pending.
C4_SettledReleased ==
    \A i \in DOMAIN invs :
        Settled(i) =>
            /\ i \notin ackListeners
            /\ i \notin closeListeners
            /\ i \notin timers

\* invocations settled by the timer, by a failed write, by a NACK and by an ACK
C4_Witness ==
    \E i, j, k, l \in DOMAIN invs :
        /\ invs[i].by = "timeout"
        /\ invs[j].by = "writeFail"
        /\ invs[k].by = "nack"
        /\ invs[l].by = "ack"

Terminated(o) == sd[o].pc \in {"resolved", "rejected"}
\* the invocations operation o made for its packet number d
AttemptsOf(o, d) == {i \in InvsOf(o) : invs[i].d = d}
\* the first of a non-empty set of invocations
First(A) == CHOOSE i \in A : \A j \in A : i <= j

\* C6: for a command other than 255 and maxTries = n >= 1, when every attempt
\* for the first packet ended by the timer, sendData has written the first
\* packet exactly n times, has made no attempt for a later packet, and has
\* failed with WRITE_TIMEOUT.
C6_TimeoutsExhaustBudget ==
    \A o \in Ops :
        (/\ Terminated(o)
         /\ sd[o].command # NoRetryCommand
         /\ sd[o].maxTries >= 1
         /\ sd[o].nPackets >= 1
         /\ \A i \in AttemptsOf(o, 1) : invs[i].by = "timeout")
        =>
        /\ Cardinality({i \in AttemptsOf(o, 1) : Wrote(i)}) = sd[o].maxTries
        /\ InvsOf(o) = AttemptsOf(o, 1)
        /\ sd[o].pc = "rejected"
        /\ sd[o].error = WRITE_TIMEOUT

\* a payload of two packets whose first packet timed out on both attempts
C6_Witness ==
    \E o \in Ops :
        /\ sd[o].pc = "rejected"
        /\ sd[o].command # NoRetryCommand
        /\ sd[o].maxTries >= 2
        /\ sd[o].nPackets >= 2
        /\ Cardinality(AttemptsOf(o, 1)) = sd[o].maxTries
        /\ \A i \in AttemptsOf(o, 1) : invs[i].by = "timeout"

\* C7: an operation for command 255 writes each packet at most once, whatever
\* maxTries is.
C7_Command255WritesOnce ==
    \A o \in Ops :
        sd[o].command = NoRetryCommand =>
            \A i, j \in InvsOf(o) :
                (Wrote(i) /\ Wrote(j) /\ invs[i].d = invs[j].d) => i = j

\* command 255 with maxTries > 1: the only attempt timed out, sendData failed
C7_Witness ==
    \E o \in Ops :
        /\ sd[o].command = NoRetryCommand
        /\ sd[o].maxTries > 1
        /\ sd[o].pc = "rejected"
        /\ \E i \in InvsOf(o) : InvsOf(o) = {i} /\ invs[i].by = "timeout"

\* C8: once an attempt of an operation has failed with a connection-fatal
\* kind, the operation makes no further writePacket call.
C8_FatalStopsAttempts ==
    [][\A o \in Ops :
            (\E i \in InvsOf(o) : invs[i].outcome \in FatalTypes) =>
                \A j \in DOMAIN invs' : invs'[j].op = o => j \in DOMAIN invs]_vars

\* the first attempt of a two-packet payload was closed with tries to spare;
\* the connection is open again and sendData has failed after that attempt
C8_Witness ==
    \E o \in Ops :
        /\ sd[o].pc = "rejected"
        /\ sd[o].maxTries >= 2 /\ sd[o].command # NoRetryCommand
        /\ sd[o].nPackets >= 2
        /\ connected
        /\ \E i \in InvsOf(o) :
                InvsOf(o) = {i} /\ invs[i].outcome = CONNECTION_CLOSED

\* C9: when a later attempt of a packet fails with a connection-fatal kind
\* after an earlier attempt failed with a retryable kind, sendData fails with
\* the connection-fatal error.
C9_FatalErrorPropagated ==
    \A o \in Ops :
        sd[o].pc = "rejected" =>
            \A i, j \in AttemptsOf(o, sd[o].d) :
                (/\ i < j
                 /\ invs[i].outcome \notin FatalTypes
                 /\ invs[j].outcome \in FatalTypes)
                => sd[o].error = invs[j].outcome

\* C10: when sendData fails after attempts for a packet, its error is the
\* error of the first failed attempt for that packet.
C10_FirstErrorPropagated ==
    \A o \in Ops :
        (sd[o].pc = "rejected" /\ AttemptsOf(o, sd[o].d) # {}) =>
            sd[o].error = invs[First(AttemptsOf(o, sd[o].d))].outcome

\* the first attempt timed out, a later one was NACKed: WRITE_TIMEOUT is thrown
C10_Witness ==
    \E o \in Ops :
        /\ sd[o].pc = "rejected"
        /\ sd[o].error = WRITE_TIMEOUT
        /\ \E i, j \in AttemptsOf(o, sd[o].d) :
                /\ i < j
                /\ invs[i].by = "timeout"
                /\ invs[j].by = "nack" /\ invs[j].outcome = WRITE_ERROR

\* C11: when the first attempt of every packet was resolved by an ACK, the
\* operation has made exactly one invocation per packet, each with a write,
\* in the order of the packet list, each settled before the next was made,
\* and sendData succeeds (its last continuation is queued or has run).
C11_AllAckedSucceeds ==
    \A o \in Ops :
        (/\ sd[o].nPackets >= 1
         /\ \A d \in 1..sd[o].nPackets :
                /\ AttemptsOf(o, d) # {}
                /\ Acked(First(AttemptsOf(o, d))))
        =>
        /\ Cardinality(InvsOf(o)) = sd[o].nPackets
        /\ \A i \in InvsOf(o) : Wrote(i)
        /\ \A i, j \in InvsOf(o) : i < j => invs[i].d < invs[j].d
        /\ sd[o].pc \in {"then", "resolved"}
        /\ sd[o].error = "none"
        /\ Quiescent => sd[o].pc = "resolved"

\* command 21, two packets, both ACKed at the first attempt: sendData resolved
C11_Witness ==
    \E o \in Ops :
        /\ sd[o].pc = "resolved"
        /\ sd[o].command = SampleCommand
        /\ sd[o].nPackets = 2
        /\ Cardinality(InvsOf(o)) = 2
        /\ \A i \in InvsOf(o) : Acked(i)

\* every packet of operation o has an attempt that was resolved by an ACK
AllPacketsAcked(o) ==
    \A d \in 1..sd[o].nPackets : \E i \in AttemptsOf(o, d) : Acked(i)

\* C12: a sendData that returned has an ACK-resolved attempt for every packet
\* and carries no error; a sendData that threw carries one error kind and has
\* a packet without an ACK-resolved attempt.
C12_AllOrNothing ==
    \A o \in Ops :
        /\ sd[o].pc = "resolved" =>
                AllPacketsAcked(o) /\ sd[o].error = "none"
        /\ sd[o].pc = "rejected" =>
                /\ ~AllPacketsAcked(o)
                /\ sd[o].error \in {CONNECTION_CLOSED, WRITE_ERROR, WRITE_TIMEOUT}

\* the first packet was ACKed, the second was not: sendData threw
C12_Witness ==
    \E o \in Ops :
        /\ sd[o].pc = "rejected"
        /\ sd[o].nPackets = 2
        /\ \E i \in AttemptsOf(o, 1) : Acked(i)
        /\ AttemptsOf(o, 2) # {}

\* C13: a notification the device sent in answer to the write of an earlier
\* invocation, delivered to the listener of a later invocation, does not
\* settle that later invocation.
C13_StaleAckDoesNotSettle ==
    \A i \in DOMAIN invs :
        (invs[i].from # 0 /\ invs[i].from < i) =>
            invs[i].by \notin {"ack", "nack"}

\* C14: sendData terminates when pending timers eventually fire: an operation
\* that waits for writePacket has the timer of that invocation pending.
C14_WaitingHasTimer ==
    \A o \in Ops : sd[o].pc = "await" => sd[o].cur \in timers

\* C15: the outcome of an invocation that wrote is the one of the event that
\* settled it: ACK resolves, NACK gives WRITE_ERROR, close (with or without
\* an error) CONNECTION_CLOSED, a failed write WRITE_ERROR, the timer
\* WRITE_TIMEOUT.
C15_OutcomeByEvent ==
    \A i \in DOMAIN invs :
        (Wrote(i) /\ Settled(i)) =>
            /\ invs[i].by \in {"ack", "nack", "close", "closeErr", "writeFail",
                               "timeout"}
            /\ invs[i].by = "ack" =>
                    invs[i].outcome = "resolved" /\ invs[i].got = ACK_PACKET
            /\ invs[i].by = "nack" =>
                    invs[i].outcome = WRITE_ERROR /\ invs[i].got = NACK_PACKET
            /\ invs[i].by \in {"close", "closeErr"} =>
                    invs[i].outcome = CONNECTION_CLOSED
            /\ invs[i].by = "writeFail" =>
                    invs[i].outcome = WRITE_ERROR /\ invs[i].wr = "rejected"
            /\ invs[i].by = "timeout" => invs[i].outcome = WRITE_TIMEOUT

\* invocations settled by the timer, a NACK, a failed write and a close that
\* carried an error
C15_Witness ==
    \E i, j, k, l \in DOMAIN invs :
        /\ invs[i].by = "timeout"
        /\ invs[j].by = "nack"
        /\ invs[k].by = "writeFail"
        /\ invs[l].by = "closeErr"

\* C16: an unsettled invocation whose dataListener got a commandType other
\* than ACK and NACK keeps waiting: its dataListener is still registered, so
\* that a later ACK resolves it and a later NACK rejects it.
C16_UnknownAckKeepsListening ==
    \A i \in DOMAIN invs :
        (invs[i].got = UNKNOWN_PACKET /\ ~Settled(i)) => i \in ackListeners

\* invocation i was rejected with a kind the retry loop retries
RetryableFail(i) == invs[i].outcome \in {WRITE_TIMEOUT, WRITE_ERROR}
\* the number of invocation i among the attempts for its packet
AttemptNo(o, i) ==
    Cardinality({k \in AttemptsOf(o, invs[i].d) : k <= i})

\* C17: for a command other than 255, an attempt that failed with a retryable
\* kind before the budget was used up is followed by another write of the
\* same packet; and when a later attempt of the packet is resolved by an ACK,
\* the operation goes on to the next packet (or returns), the earlier error
\* is not the one sendData fails with, and the next packet starts with no
\* error recorded.
C17_RetryThenProceed ==
    \A o \in Ops :
        /\ sd[o].command # NoRetryCommand =>
            \A i \in InvsOf(o) :
                (RetryableFail(i) /\ AttemptNo(o, i) < sd[o].maxTries) =>
                    \/ sd[o].pc = "catch" /\ sd[o].cur = i
                    \/ /\ sd[o].pc = "loop"
                       /\ LoopContinues(sd[o])
                       /\ connected
                       /\ sd[o].d = invs[i].d
                    \/ \E j \in AttemptsOf(o, invs[i].d) : j > i /\ Wrote(j)
        /\ \A i, j \in InvsOf(o) :
                (/\ i < j
                 /\ invs[i].d = invs[j].d
                 /\ RetryableFail(i)
                 /\ Acked(j))
                =>
                /\ sd[o].d >= invs[j].d
                /\ sd[o].d = invs[j].d =>
                        sd[o].pc \in {"then", "resolved"} /\ sd[o].error = "none"
        /\ (sd[o].pc = "loop" /\ AttemptsOf(o, sd[o].d) = {}) =>
                sd[o].firstError = "undefined"

\* C18: a sendData called with maxTries <= 0, a command other than 255 and at
\* least one packet makes no writePacket call, so no write, listener or
\* timer, and fails with WRITE_TIMEOUT.
C18_NoTriesFallback ==
    \A o \in Ops :
        (/\ sd[o].pc # "idle"
         /\ sd[o].maxTries <= 0
         /\ sd[o].command # NoRetryCommand
         /\ sd[o].nPackets >= 1)
        =>
        /\ InvsOf(o) = {}
        /\ sd[o].pc \in {"loop", "rejected"}
        /\ sd[o].pc = "rejected" => sd[o].error = WRITE_TIMEOUT

\* sendData with maxTries <= 0 has failed with WRITE_TIMEOUT
C18_Witness ==
    \E o \in Ops :
        /\ sd[o].pc = "rejected"
        /\ sd[o].maxTries <= 0
        /\ sd[o].command # NoRetryCommand
        /\ sd[o].nPackets >= 1
        /\ sd[o].error = WRITE_TIMEOUT
        /\ invs = <<>>

\* invocation i has a listener registered or its timer pending
InFlight(i) ==
    i \in ackListeners \/ i \in closeListeners \/ i \in timers

\* C19: of the invocations of one operation only the one sendData awaits has
\* a listener registered or a timer pending, and it is the latest: at most one
\* 'ack' listener, one 'close' listener and one timer per operation.
C19_OneInFlight ==
    \A o \in SeqOps :
        /\ \A i \in InvsOf(o) :
                InFlight(i) =>
                    /\ sd[o].pc = "await" /\ sd[o].cur = i
                    /\ \A j \in InvsOf(o) : j <= i
        /\ Cardinality(ackListeners \cap InvsOf(o)) <= 1
        /\ Cardinality(closeListeners \cap InvsOf(o)) <= 1
        /\ Cardinality(timers \cap InvsOf(o)) <= 1

\* a retry is in flight with its own listeners and timer after a NACK removed
\* those of the attempt before
C19_Witness ==
    \E i, j \in DOMAIN invs :
        /\ i < j
        /\ invs[i].op = invs[j].op /\ invs[i].d = invs[j].d
        /\ invs[i].by = "nack"
        /\ ackListeners = {j} /\ closeListeners = {j} /\ timers = {j}

\* C20: an 'ack' notification is delivered to the dataListener of every
\* invocation in flight, of whichever operation, and an ACK or NACK settles
\* them all alike; a 'close' notification rejects every invocation in flight
\* with CONNECTION_CLOSED.
C20_NotificationSettlesAll ==
    [][/\ \A i, j \in ackListeners :
            invs'[i].got # invs[i].got =>
                /\ invs'[j].got = invs'[i].got
                /\ invs'[i].got \in {ACK_PACKET, NACK_PACKET} =>
                        /\ invs'[j].outcome # "pending"
                        /\ invs'[j].outcome = invs'[i].outcome
                        /\ invs'[j].by = invs'[i].by
       /\ \A i, j \in closeListeners :
            (invs[i].by = "none" /\ invs'[i].by \in {"close", "closeErr"}) =>
                /\ invs'[j].outcome = CONNECTION_CLOSED
                /\ invs'[j].by = invs'[i].by]_vars

\* one ACK resolved the invocations of two operations: both continuations
\* are queued in the same turn of the event loop
C20_Witness ==
    \E i, j \in DOMAIN invs :
        /\ invs[i].op = 1 /\ invs[j].op = 2
        /\ Acked(i) /\ Acked(j)
        /\ sd[1].pc = "then" /\ sd[1].cur = i
        /\ sd[2].pc = "then" /\ sd[2].cur = j


=============================================================================
